---- MODULE Spec2Model ----
(***************************************************************************)
(* A model of bryant.py, the Carrier Infinity client: the signed request   *)
(* layer with its re-authentication (_request / login), the cached system  *)
(* list (get_systems) and the read-modify-write of the configuration       *)
(* document (get_config, set_temperature, set_mode).                       *)
(*                                                                         *)
(* An XML element that may be missing is a sequence of length 0 or 1:      *)
(* <<>> is "find() returned None", <<t>> is an element whose text is t.    *)
(* An element with no text and one with text '' are both <<"">>: the code  *)
(* never tells them apart and ET.tostring writes them alike.  Python's     *)
(* None for an optional argument is <<>> as well.                          *)
(***************************************************************************)
EXTENDS Integers, Sequences, FiniteSets, TLC

VARIABLES
    access_token,   \* self.access_token
    systems,        \* self._systems
    op,             \* the client operation the caller is running
    stack,          \* the _request / login frames now on the Python stack
    ret,            \* the value the last frame returned, until it is consumed
    calls,          \* history: the requests the operation has issued, in order
    auth,           \* history: the operation's latest call of _request
    issued          \* history: the token of the server's last login response

vars == <<access_token, systems, op, stack, ret, calls, auth, issued>>

---------------------------------------------------------------------------
(* Optional values *)

None == <<>>

Elem(t) == <<t>>

Present(e) == e # <<>>

Text(e) == e[1]

---------------------------------------------------------------------------
(* Bounds of the model *)

\* Frames of _request / login the interpreter allows before RecursionError
\* (sys.getrecursionlimit() is 1000; the model keeps it small).
RecursionLimit == 5

---------------------------------------------------------------------------
(* Program constants *)

CONSUMER_SECRET == "0f5ur7d89sjv8d45"

STATUS_OK == 200

STATUS_UNAUTHORIZED == 401

\* The statuses the server answers with: success, token expired, forbidden,
\* and a server error.
Statuses == {STATUS_OK, STATUS_UNAUTHORIZED, 403, 500}

\* The tokens the server issues.
Tokens == {"tokA", "tokB"}

---------------------------------------------------------------------------
(* Number formatting: f'{x:.1f}' and the timestamp text *)

Digit(n) == <<"0", "1", "2", "3", "4", "5", "6", "7", "8", "9">>[n + 1]

RECURSIVE IntToStr(_)
IntToStr(n) == IF n < 10 THEN Digit(n) ELSE IntToStr(n \div 10) \o Digit(n % 10)

\* A setpoint is a float that is a whole number of quarter degrees, q / 4 (such a
\* float is exact).  f'{q/4:.1f}' rounds 10 * q / 4 to the nearest integer, a tie
\* to the even one, and writes it with one digit after the point.
FormatOneDecimalHalfUp(q) ==
    LET t == (5 * q + 1) \div 2
    IN  IntToStr(t \div 10) \o "." \o Digit(t % 10)

FormatOneDecimal(q) ==
    LET k == (5 * q) \div 2
        t == IF q % 2 = 0 THEN k
             ELSE IF k % 2 = 0 THEN k ELSE k + 1
    IN  IntToStr(t \div 10) \o "." \o Digit(t % 10)

\* The instants (milliseconds of the UTC clock) at which the clock is read.
Instants == {999, 1000}

Pad2(n) == IF n < 10 THEN "0" \o IntToStr(n) ELSE IntToStr(n)

Pad3(n) == IF n < 10 THEN "00" \o IntToStr(n)
           ELSE IF n < 100 THEN "0" \o IntToStr(n) ELSE IntToStr(n)

\* strftime('%Y-%m-%dT%H:%M:%S.') of the first clock reading t1, then the
\* milliseconds of a second clock reading t2, then 'Z'.
Timestamp(t1, t2) ==
    "1970-01-01T00:00:" \o Pad2((t1 \div 1000) % 60) \o "." \o Pad3(t2 % 1000) \o "Z"

---------------------------------------------------------------------------
(* The configuration document, as the tree ET.fromstring builds *)

\* An activity: its id attribute, its fan element and its setpoint elements.
Activity(id, fan, htsp, clsp) == [id |-> id, fan |-> fan, htsp |-> htsp, clsp |-> clsp]

\* A zone: its id attribute, its name, the hold elements and its activities.
ZoneElem(id, name, hold, holdActivity, otmr, activities) ==
    [id |-> id, name |-> name, hold |-> hold, holdActivity |-> holdActivity,
     otmr |-> otmr, activities |-> activities]

\* The document: the zones section, the mode and the timestamp.
Config(zones, mode, timestamp) ==
    [zones |-> zones, mode |-> mode, timestamp |-> timestamp]

ManualAct == Activity("manual", Elem("off"), Elem("68.0"), Elem("74.0"))

ManualBare == Activity("manual", None, None, None)

HomeAct == Activity("home", Elem("low"), Elem("66.0"), Elem("76.0"))

\* Zone 2 is always complete and on hold.
Zone2 == ZoneElem("2", "Downstairs", Elem("on"), Elem("home"), Elem("22:00"),
                  Elem(<<HomeAct, Activity("manual", Elem("med"), Elem("65.0"), Elem("78.0"))>>))

\* The shapes zone 1 comes in: on hold, not on hold, without the hold elements and
\* setpoints, without activities, without the manual activity.
Zone1Shapes ==
    { ZoneElem("1", "Upstairs", Elem("on"), Elem("home"), Elem("22:00"),
               Elem(<<HomeAct, ManualAct>>)),
      ZoneElem("1", "Upstairs", Elem("off"), Elem(""), Elem(""),
               Elem(<<ManualAct, HomeAct>>)),
      ZoneElem("1", "Upstairs", None, None, None, Elem(<<ManualBare>>)),
      ZoneElem("1", "Upstairs", Elem("on"), Elem("manual"), None, None),
      ZoneElem("1", "Upstairs", Elem("on"), Elem("home"), Elem(""),
               Elem(<<HomeAct>>)) }

\* The documents the server answers a config fetch with.
Docs ==
    { Config(Elem(<<z, Zone2>>), Elem("heat"), Elem("2024-01-01T00:00:00.000Z")) :
        z \in Zone1Shapes }
    \cup { Config(None, Elem("cool"), Elem("2024-01-01T00:00:00.000Z")),
           Config(Elem(<<Zone2>>), None, None),
           Config(Elem(<<Zone2, Zone2>>), Elem("auto"), None) }

\* The arguments set_temperature is called with.  A setpoint is in quarter
\* degrees: 280 is 70.0, 281 is 70.25, 299 is 74.75.
SetTemperatureArgs ==
    { [zone_id |-> "1", heat |-> Elem(280), cool |-> None, hold_until |-> None],
      [zone_id |-> "1", heat |-> None, cool |-> Elem(299), hold_until |-> Elem("22:00")],
      [zone_id |-> "1", heat |-> None, cool |-> None, hold_until |-> Elem("")],
      [zone_id |-> "2", heat |-> Elem(281), cool |-> Elem(299), hold_until |-> Elem("23:30")],
      [zone_id |-> "2", heat |-> None, cool |-> None, hold_until |-> None] }

Modes == {"off", "cool"}

---------------------------------------------------------------------------
(* The status and profile documents *)

\* A zone of the status document: its id attribute and the elements get_zones
\* reads (rt, rh, currentActivity, htsp, clsp, fan, zoneconditioning).
StatusZone(id, rt, rh, currentActivity, htsp, clsp, fan, zoneconditioning) ==
    [id |-> id, rt |-> rt, rh |-> rh, currentActivity |-> currentActivity,
     htsp |-> htsp, clsp |-> clsp, fan |-> fan, zoneconditioning |-> zoneconditioning]

\* The status document: the outdoor temperature, the zones section and the mode.
Status(oat, zones, mode) == [oat |-> oat, zones |-> zones, mode |-> mode]

\* A zone of the profile document: its id attribute and its present element.
ProfileZone(id, present) == [id |-> id, present |-> present]

\* The profile document: the zones section.
Profile(zones) == [zones |-> zones]

\* Zone 1 is complete, zone 2 has elements missing, empty or not numeric, and
\* zone 3 is a zone the config and the profile do not flag as present.
StatusZone1 == StatusZone("1", Elem("71.5"), Elem("45"), Elem("home"), Elem("68.0"),
                          Elem("74.0"), Elem("low"), Elem("active_heat"))

StatusZone2 == StatusZone("2", None, Elem("n/a"), Elem(""), Elem("68.0"),
                          Elem(""), None, None)

StatusZone3 == StatusZone("3", Elem("0"), None, None, None, None, Elem(""), Elem("idle"))

\* The documents the server answers a status fetch with.
StatusDocs ==
    { Status(Elem("55"), Elem(<<StatusZone1, StatusZone2, StatusZone3>>), Elem("gasheat")),
      Status(None, Elem(<<StatusZone3>>), Elem("electric")),
      Status(Elem(""), None, Elem("hpheat")),
      Status(Elem("n/a"), Elem(<<StatusZone1, StatusZone3>>), Elem("dehumidify")),
      Status(Elem("71.5"), Elem(<<>>), Elem("cool")),
      Status(Elem("0"), Elem(<<StatusZone2>>), None),
      Status(Elem("55"), Elem(<<StatusZone1>>), Elem("")) }

\* The documents the server answers a profile fetch with.
ProfileDocs ==
    { Profile(Elem(<<ProfileZone("1", Elem("on")), ProfileZone("2", Elem("off")),
                     ProfileZone("3", None)>>)),
      Profile(Elem(<<ProfileZone("1", Elem("on")), ProfileZone("2", Elem("on"))>>)),
      Profile(Elem(<<ProfileZone("1", Elem("off")), ProfileZone("2", Elem(""))>>)),
      Profile(None) }

---------------------------------------------------------------------------
(* Finding elements: the find / findall loops of set_temperature *)

\* The first index of s whose element has the given id attribute, 0 if none.
RECURSIVE FirstWithIdFrom(_, _, _)
FirstWithIdFrom(s, id, i) ==
    IF i > Len(s) THEN 0
    ELSE IF s[i].id = id THEN i ELSE FirstWithIdFrom(s, id, i + 1)

LastWithId(s, id) ==
    LET found == {i \in 1..Len(s) : s[i].id = id}
    IN  IF found = {} THEN 0 ELSE CHOOSE i \in found : \A j \in found : j <= i

FirstWithId(s, id) == FirstWithIdFrom(s, id, 1)

\* Where the lookups of lines 386-415 end: "ok", or the element that is missing.
Locate(config, zone_id) ==
    IF ~Present(config.zones) THEN "no_zones"
    ELSE LET zi == FirstWithId(Text(config.zones), zone_id)
         IN  IF zi = 0 THEN "no_zone"
             ELSE LET z == Text(config.zones)[zi]
                  IN  IF ~Present(z.activities) THEN "no_activities"
                      ELSE IF FirstWithId(Text(z.activities), "manual") = 0
                           THEN "no_manual"
                           ELSE "ok"

TargetZone(config, zone_id) ==
    Text(config.zones)[FirstWithId(Text(config.zones), zone_id)]

WithZoneLast(config, zone_id, z) ==
    [config EXCEPT !.zones =
        Elem([Text(config.zones) EXCEPT ![LastWithId(Text(config.zones), zone_id)] = z])]

\* The document with its first zone of that id replaced by z.
WithZone(config, zone_id, z) ==
    [config EXCEPT !.zones =
        Elem([Text(config.zones) EXCEPT ![FirstWithId(Text(config.zones), zone_id)] = z])]

\* The zone with its first manual activity replaced by a.
WithManual(z, a) ==
    [z EXCEPT !.activities =
        Elem([Text(z.activities) EXCEPT ![FirstWithId(Text(z.activities), "manual")] = a])]

ManualOf(z) == Text(z.activities)[FirstWithId(Text(z.activities), "manual")]

---------------------------------------------------------------------------
(* The edits set_temperature and set_mode make to the fetched document *)

\* Lines 419-421: a zone without a hold element gets an empty one.
EnsureHold(z) == IF Present(z.hold) THEN z ELSE [z EXCEPT !.hold = Elem("")]

\* Line 423.
WasHoldOn(z) == Text(EnsureHold(z).hold) = "on"

\* Lines 427-431: hold off, and the hold activity emptied if there is one.
ClearHold(z) ==
    [z EXCEPT !.hold = Elem("off"),
              !.holdActivity = IF Present(@) THEN Elem("") ELSE @]

\* Lines 474-484: a requested setpoint is written to the manual activity,
\* creating the element if needed; one not requested is left alone.
ApplySetpoints(a, heat_setpoint, cool_setpoint) ==
    [a EXCEPT !.htsp = IF Present(heat_setpoint)
                       THEN Elem(FormatOneDecimal(Text(heat_setpoint))) ELSE @,
              !.clsp = IF Present(cool_setpoint)
                       THEN Elem(FormatOneDecimal(Text(cool_setpoint))) ELSE @]

\* Lines 468-492 on the zone: hold activity "manual", the setpoints, the override
\* timer (hold_until or ''), hold on.
HoldZone(z, heat_setpoint, cool_setpoint, hold_until) ==
    LET z1 == [z EXCEPT !.holdActivity = Elem("manual")]
        z2 == IF Present(heat_setpoint) \/ Present(cool_setpoint)
              THEN WithManual(z1, ApplySetpoints(ManualOf(z1), heat_setpoint, cool_setpoint))
              ELSE z1
    IN  [z2 EXCEPT !.otmr = IF Present(hold_until) THEN hold_until ELSE Elem(""),
                   !.hold = Elem("on")]

\* Lines 495-497 and 535-537: the timestamp element, if there is one, gets the
\* text built from two readings of the clock.
Stamp(config, t1, t2) ==
    [config EXCEPT !.timestamp = IF Present(@) THEN Elem(Timestamp(t1, t2)) ELSE @]

\* Lines 495-497 and 535-537: the clock is read, twice, only when the document
\* has a timestamp element; the two readings are kept as history.
ClockRead(config, t1, t2) ==
    IF Present(config.timestamp) THEN Elem([start |-> t1, end |-> t2]) ELSE None

\* Lines 530-532: the mode element, if there is one, gets the requested mode.
SetModeElem(config, mode) ==
    [config EXCEPT !.mode = IF Present(@) THEN Elem(mode) ELSE @]

\* Lines 451-492 after the re-fetch: the lookups are repeated without the None
\* checks, so a missing element is an AttributeError on None.
RefetchRaises(config, zone_id, heat_setpoint, cool_setpoint) ==
    \/ ~Present(config.zones)
    \/ FirstWithId(Text(config.zones), zone_id) = 0
    \/ LET z == TargetZone(config, zone_id)
       IN  \/ ~Present(z.activities)
           \/ /\ FirstWithId(Text(z.activities), "manual") = 0
              /\ Present(heat_setpoint) \/ Present(cool_setpoint)
           \/ ~Present(z.hold)

---------------------------------------------------------------------------
(* Requests and responses *)

LoginPath == "/users/authenticated"

ActivatePath == "/users/{username}/activateSystems"

LocationsPath == "/users/{username}/locations"

ConfigPath == "/systems/{serial}/config"

StatusPath == "/systems/{serial}/status"

ProfilePath == "/systems/{serial}/profile"

\* Line 113: the key the signature is computed with.
SigningKey(token) == CONSUMER_SECRET \o "&" \o token

NoBody == [empty |-> TRUE]

\* An href is the sequence of its path segments; a locations document is the
\* sequence of the hrefs of its atom:link elements.
LocationBodies ==
    { <<>>,
      << <<"users", "u", "locations", "7">> >>,
      << <<"locations", "7", "systems", "S1">>, <<"users", "u">> >>,
      << <<"systems", "S1", "status">>, <<"systems", "S2">>, <<"systems", "">> >> }

\* What the server may put in a 200 response to the request.
Bodies(method, path) ==
    IF path = LoginPath
    THEN {[accessToken |-> Elem(t)] : t \in Tokens} \cup {[accessToken |-> None]}
    ELSE IF path = ConfigPath /\ method = "GET" THEN Docs
    ELSE IF path = LocationsPath THEN LocationBodies
    ELSE IF path = StatusPath THEN StatusDocs
    ELSE IF path = ProfilePath THEN ProfileDocs
    ELSE {NoBody}

Responses(method, path) ==
    {[status |-> s, body |-> NoBody] : s \in Statuses \ {STATUS_OK}}
    \cup {[status |-> STATUS_OK, body |-> b] : b \in Bodies(method, path)}

\* A frame of _request: its arguments, where it stands, its first response, and
\* (while a thread waits for the response) the key the request was signed with.
RequestFrame(method, path, data, retry) ==
    [fn |-> "_request", method |-> method, path |-> path, data |-> data,
     retry |-> retry, pc |-> "send", resp |-> None, key |-> ""]

\* A frame of login; entry is the token at the time of the call (history).
LoginFrame(token) == [fn |-> "login", pc |-> "request", entry |-> token]

\* Lines 196-200: login builds the credentials and calls _request, leaving _retry
\* at its default.
LoginRequestRetry == TRUE

LoginCall(token) ==
    <<LoginFrame(token),
      RequestFrame("POST", LoginPath, Elem([credentials |-> "username"]),
                   LoginRequestRetry)>>

Top == stack[Len(stack)]

Pop == SubSeq(stack, 1, Len(stack) - 1)

\* The history of one call of _request by the operation: the status of its first
\* response, the logins and re-sends made for it, and the path and signing key of
\* the last request put on the wire.
NewAuth == [first |-> 0, logins |-> 0, resends |-> 0, path |-> "", key |-> ""]

\* An entry of the history of requests: what was asked and, for a document
\* pushed by set_temperature, the hold element of the target zone in it.
Call(kind, hold) == [kind |-> kind, hold |-> hold]

HoldOf(config, zone_id) == TargetZone(config, zone_id).hold

\* The operation calls _request: one frame on an empty stack.  earlier is the
\* history so far.
Issue(earlier, method, path, data, kind, hold) ==
    /\ stack' = <<RequestFrame(method, path, data, TRUE)>>
    /\ ret' = None
    /\ auth' = NewAuth
    /\ calls' = Append(earlier, Call(kind, hold))

\* Line 442: time.sleep(3), kept in the history.
Sleep == Call("sleep", None)

Returned == stack = <<>> /\ Present(ret)

---------------------------------------------------------------------------
(* get_systems: the serial numbers in a locations document *)

\* Lines 236-238: '/systems/' in href, and the segment after the last one.
HasSystems(href) == \E i \in 1..(Len(href) - 1) : href[i] = "systems"

SerialOf(href) ==
    LET i == CHOOSE k \in 1..(Len(href) - 1) :
                 /\ href[k] = "systems"
                 /\ \A j \in 1..(Len(href) - 1) : href[j] = "systems" => j <= k
    IN  href[i + 1]

\* Lines 232-240: the non-empty serials of the system links, in document order.
RECURSIVE ParseSystems(_)
ParseSystems(links) ==
    IF links = <<>> THEN <<>>
    ELSE LET href == Head(links)
             rest == ParseSystems(Tail(links))
         IN  IF HasSystems(href) /\ SerialOf(href) # ""
             THEN <<SerialOf(href)>> \o rest
             ELSE rest

---------------------------------------------------------------------------
(* The state after construction, lines 80-90 *)

NoOp ==
    [name |-> "none", pc |-> "done", phase |-> 0, zone_id |-> "", heat |-> None,
     cool |-> None, hold_until |-> None, mode |-> "", fetched |-> None,
     was_hold_on |-> None, config |-> None, result |-> None, error |-> "",
     rejected |-> FALSE, status |-> None, present |-> None, first |-> None,
     clock |-> None]

Init ==
    /\ access_token = ""
    /\ systems = <<>>
    /\ op = NoOp
    /\ stack = <<>>
    /\ ret = None
    /\ calls = <<>>
    /\ auth = NewAuth
    /\ issued = ""

\* The caller may start an operation when none is running and none has raised.
Idle == op.pc = "done" /\ stack = <<>>

\* An unhandled exception unwinds every frame and ends the operation (and, as
\* no caller catches it, the program).
Raise(error) ==
    /\ stack' = <<>>
    /\ ret' = None
    /\ op' = [op EXCEPT !.pc = "raised", !.error = error, !.rejected = TRUE]

\* The token the server's response issues, if it issues one.
Issues(r) ==
    IF Top.path = LoginPath /\ r.status = STATUS_OK /\ Present(r.body.accessToken)
    THEN Text(r.body.accessToken) ELSE issued

\* The operation returns value to its caller.
Finish(value) == op' = [op EXCEPT !.pc = "done", !.result = Elem(value)]

---------------------------------------------------------------------------
(* _request, lines 153-189, and login, lines 191-213 *)

\* Lines 159-189 up to the call of login: the request is signed with the current
\* token and sent; the server answers; a 401 on an attempt that may retry calls
\* login, any other response is returned.
Sent(r) ==
    [auth EXCEPT !.first = IF @ = 0 THEN r.status ELSE @,
                 !.path = Top.path,
                 !.key = SigningKey(access_token)]

request_send ==
    /\ stack # <<>>
    /\ Top.fn = "_request" /\ Top.pc = "send"
    /\ \E r \in Responses(Top.method, Top.path) :
       /\ issued' = Issues(r)
       /\ IF r.status = STATUS_UNAUTHORIZED /\ Top.retry
            THEN IF Len(stack) + 2 > RecursionLimit
                 THEN Raise("RecursionError") /\ auth' = Sent(r)
                 ELSE /\ stack' = Pop \o <<[Top EXCEPT !.pc = "login", !.resp = Elem(r)]>>
                                      \o LoginCall(access_token)
                      /\ ret' = None
                      /\ auth' = [Sent(r) EXCEPT !.logins = @ + 1]
                      /\ op' = [op EXCEPT !.rejected = TRUE]
            ELSE /\ stack' = Pop
                 /\ ret' = Elem(r)
                 /\ auth' = Sent(r)
                 /\ op' = [op EXCEPT !.rejected = @ \/ r.status # STATUS_OK]
    /\ UNCHANGED <<access_token, systems, calls>>

\* Lines 202-213: login stores the token of a 200 response that carries one and
\* returns True; otherwise it returns False.
LoginSucceeds(r) == r.status = STATUS_OK /\ Present(r.body.accessToken)

login_return_stale ==
    /\ stack # <<>>
    /\ Top.fn = "login" /\ Present(ret)
    /\ ret' = Elem(LoginSucceeds(Text(ret)))
    /\ stack' = Pop
    /\ UNCHANGED <<access_token, systems, op, calls, auth, issued>>

login_return ==
    /\ stack # <<>>
    /\ Top.fn = "login" /\ Present(ret)
    /\ LET r == Text(ret)
       IN  IF LoginSucceeds(r)
           THEN /\ access_token' = Text(r.body.accessToken)
                /\ ret' = Elem(TRUE)
           ELSE /\ access_token' = access_token
                /\ ret' = Elem(FALSE)
    /\ stack' = Pop
    /\ UNCHANGED <<systems, op, calls, auth, issued>>

\* Lines 186-189: after login returned True the request is made again with
\* _retry=False; after it returned False the first response is returned.
RetryFlagOfResend == FALSE

request_relogged ==
    /\ stack # <<>>
    /\ Top.fn = "_request" /\ Top.pc = "login" /\ Present(ret)
    /\ IF Text(ret)
       THEN IF Len(stack) + 1 > RecursionLimit
            THEN Raise("RecursionError") /\ auth' = auth
            ELSE /\ stack' = Pop \o <<[Top EXCEPT !.pc = "retry"],
                                      RequestFrame(Top.method, Top.path, Top.data,
                                                   RetryFlagOfResend)>>
                 /\ ret' = None
                 /\ auth' = [auth EXCEPT !.resends =
                                 IF \A i \in 1..(Len(stack) - 1) : stack[i].fn # "_request"
                                 THEN @ + 1 ELSE @]
                 /\ op' = op
       ELSE /\ stack' = Pop
            /\ ret' = Top.resp
            /\ auth' = auth
            /\ op' = op
    /\ UNCHANGED <<access_token, systems, calls, issued>>

\* Line 187: the response of the second attempt is returned as it is.
request_retried ==
    /\ stack # <<>>
    /\ Top.fn = "_request" /\ Top.pc = "retry" /\ Present(ret)
    /\ stack' = Pop
    /\ UNCHANGED <<access_token, systems, op, ret, calls, auth, issued>>

---------------------------------------------------------------------------
(* The operations of the client *)

\* The caller calls login(), lines 191-200.
call_login ==
    /\ Idle
    /\ op' = [NoOp EXCEPT !.name = "login", !.pc = "login"]
    /\ stack' = LoginCall(access_token)
    /\ ret' = None
    /\ auth' = NewAuth
    /\ calls' = <<Call("login", None)>>
    /\ UNCHANGED <<access_token, systems, issued>>

\* login() has returned to the caller.
login_done ==
    /\ op.name = "login" /\ op.pc = "login" /\ Returned
    /\ Finish(Text(ret))
    /\ ret' = None
    /\ UNCHANGED <<access_token, systems, stack, calls, auth, issued>>

\* Lines 223-226: get_systems returns the cached list if it is not empty, and
\* asks for the locations otherwise.
CacheHitNever(cached) == FALSE

CacheHit(cached) == cached # <<>>

call_get_systems ==
    /\ Idle
    /\ IF CacheHit(systems)
       THEN /\ op' = [NoOp EXCEPT !.name = "get_systems", !.result = Elem(systems)]
            /\ calls' = <<>>
            /\ UNCHANGED <<stack, ret, auth, issued>>
       ELSE /\ op' = [NoOp EXCEPT !.name = "get_systems", !.pc = "locations"]
            /\ Issue(<<>>, "GET", LocationsPath, None, "locations", None)
    /\ UNCHANGED <<access_token, systems, issued>>

\* Lines 227-243: a failed request returns [] and leaves the cache; a 200 is
\* parsed, cached and returned.
get_systems_parsed ==
    /\ op.name = "get_systems" /\ op.pc = "locations" /\ Returned
    /\ LET r == Text(ret)
       IN  /\ calls' = calls
           /\ IF r.status # STATUS_OK
              THEN Finish(<<>>) /\ systems' = systems
              ELSE /\ systems' = ParseSystems(r.body)
                   /\ Finish(ParseSystems(r.body))
    /\ ret' = None
    /\ UNCHANGED <<access_token, stack, auth, issued>>

\* set_temperature is called, line 380: get_config, line 255: activate.
call_set_temperature ==
    /\ Idle
    /\ systems # <<>>
    /\ \E a \in SetTemperatureArgs :
         op' = [NoOp EXCEPT !.name = "set_temperature", !.pc = "activate", !.phase = 1,
                            !.zone_id = a.zone_id, !.heat = a.heat, !.cool = a.cool,
                            !.hold_until = a.hold_until]
    /\ Issue(<<>>, "POST", ActivatePath, None, "activate", None)
    /\ UNCHANGED <<access_token, systems, issued>>

\* set_mode is called, line 525: get_config, line 255: activate.
call_set_mode ==
    /\ Idle
    /\ systems # <<>>
    /\ \E mode \in Modes :
         op' = [NoOp EXCEPT !.name = "set_mode", !.pc = "activate", !.phase = 1,
                            !.mode = mode]
    /\ Issue(<<>>, "POST", ActivatePath, None, "activate", None)
    /\ UNCHANGED <<access_token, systems, issued>>

\* get_config, lines 255-256: whatever activate returned, the document is
\* requested.
get_config_request ==
    /\ op.pc = "activate" /\ Returned
    /\ op' = [op EXCEPT !.pc = "get"]
    /\ Issue(calls, "GET", ConfigPath, None, "get_config", None)
    /\ UNCHANGED <<access_token, systems, issued>>

\* Lines 257-259 and 380-435 or 467-503: the first document is looked through;
\* a zone on hold gets the hold-clearing push, any other zone the final push.
set_temperature_fetched ==
    /\ op.name = "set_temperature" /\ op.pc = "get" /\ op.phase = 1 /\ Returned
    /\ LET r == Text(ret)
           earlier == calls
       IN  IF r.status # STATUS_OK
           THEN Finish(FALSE) /\ calls' = earlier /\ ret' = None
                              /\ UNCHANGED <<stack, auth, issued>>
           ELSE IF Locate(r.body, op.zone_id) # "ok"
           THEN /\ op' = [op EXCEPT !.pc = "done", !.result = Elem(FALSE),
                                    !.first = Elem(r.body),
                                    !.fetched = Elem(r.body), !.config = Elem(r.body)]
                /\ calls' = earlier /\ ret' = None
                /\ UNCHANGED <<stack, auth, issued>>
           ELSE LET z == EnsureHold(TargetZone(r.body, op.zone_id))
                IN  IF WasHoldOn(z)
                    THEN LET cleared == WithZone(r.body, op.zone_id, ClearHold(z))
                         IN  /\ op' = [op EXCEPT !.pc = "clear",
                                                 !.was_hold_on = Elem(TRUE),
                                                 !.first = Elem(r.body),
                                                 !.fetched = Elem(r.body),
                                                 !.config = Elem(cleared)]
                             /\ Issue(earlier, "POST", ConfigPath, Elem(cleared), "push",
                                      HoldOf(cleared, op.zone_id))
                    ELSE \E t1 \in Instants, t2 \in Instants :
                           LET held == Stamp(WithZone(r.body, op.zone_id,
                                               HoldZone(z, op.heat, op.cool, op.hold_until)),
                                             t1, t2)
                           IN  /\ t1 <= t2
                               /\ op' = [op EXCEPT !.pc = "push",
                                                   !.was_hold_on = Elem(FALSE),
                                                   !.first = Elem(r.body),
                                                   !.clock = ClockRead(r.body, t1, t2),
                                                   !.fetched = Elem(r.body),
                                                   !.config = Elem(held)]
                               /\ Issue(earlier, "POST", ConfigPath, Elem(held), "push",
                                        HoldOf(held, op.zone_id))
    /\ UNCHANGED <<access_token, systems, issued>>

\* Line 437: the hold-clearing push failed.
ClearFailedNever(r) == FALSE

ClearFailed(r) == r.status # STATUS_OK

\* Lines 437-445: a rejected hold-clearing push ends the operation; after an
\* accepted one the client sleeps and fetches the document again.
set_temperature_cleared ==
    /\ op.name = "set_temperature" /\ op.pc = "clear" /\ Returned
    /\ LET r == Text(ret)
       IN  IF ClearFailed(r)
           THEN Finish(FALSE) /\ calls' = calls /\ ret' = None
                              /\ UNCHANGED <<stack, auth, issued>>
           ELSE /\ op' = [op EXCEPT !.pc = "activate", !.phase = 2]
                /\ Issue(Append(calls, Sleep), "POST", ActivatePath, None,
                         "activate", None)
    /\ UNCHANGED <<access_token, systems, issued>>

\* Lines 445-448: config is assigned the document fetched after the push; the
\* copy fetched before it is dropped.
SecondPhaseSourceStale(first, refetched) == first

SecondPhaseSource(first, refetched) == refetched

\* Lines 446-503: the second document is edited and pushed.
set_temperature_refetched ==
    /\ op.name = "set_temperature" /\ op.pc = "get" /\ op.phase = 2 /\ Returned
    /\ LET r == Text(ret)
           earlier == calls
       IN  IF r.status # STATUS_OK
           THEN Finish(FALSE) /\ calls' = earlier /\ ret' = None
                              /\ UNCHANGED <<stack, auth, issued>>
           ELSE IF RefetchRaises(r.body, op.zone_id, op.heat, op.cool)
           THEN /\ stack' = <<>> /\ ret' = None
                /\ op' = [op EXCEPT !.pc = "raised", !.error = "AttributeError",
                                    !.fetched = Elem(r.body)]
                /\ calls' = earlier /\ auth' = auth
           ELSE \E t1 \in Instants, t2 \in Instants :
                  LET config == SecondPhaseSource(Text(op.first), r.body)
                      held == Stamp(WithZone(config, op.zone_id,
                                      HoldZone(TargetZone(config, op.zone_id),
                                               op.heat, op.cool, op.hold_until)),
                                    t1, t2)
                  IN  /\ t1 <= t2
                      /\ op' = [op EXCEPT !.pc = "push", !.fetched = Elem(r.body),
                                          !.clock = ClockRead(config, t1, t2),
                                          !.config = Elem(held)]
                      /\ Issue(earlier, "POST", ConfigPath, Elem(held), "push",
                                        HoldOf(held, op.zone_id))
    /\ UNCHANGED <<access_token, systems, issued>>

\* Lines 505-512: after an accepted push activate is called; a rejected push
\* returns False.
set_temperature_pushed ==
    /\ op.name = "set_temperature" /\ op.pc = "push" /\ Returned
    /\ LET r == Text(ret)
       IN  IF r.status = STATUS_OK
           THEN /\ op' = [op EXCEPT !.pc = "sync"]
                /\ Issue(calls, "POST", ActivatePath, None, "activate", None)
           ELSE Finish(FALSE) /\ calls' = calls /\ ret' = None
                              /\ UNCHANGED <<stack, auth, issued>>
    /\ UNCHANGED <<access_token, systems, issued>>

\* Lines 507-509: whatever activate returned, set_temperature returns True.
set_temperature_synced ==
    /\ op.name = "set_temperature" /\ op.pc = "sync" /\ Returned
    /\ Finish(TRUE)
    /\ calls' = calls
    /\ ret' = None
    /\ UNCHANGED <<access_token, systems, stack, auth, issued>>

\* Lines 526-542: the mode and the timestamp are set and the document pushed.
set_mode_fetched ==
    /\ op.name = "set_mode" /\ op.pc = "get" /\ Returned
    /\ LET r == Text(ret)
           earlier == calls
       IN  IF r.status # STATUS_OK
           THEN Finish(FALSE) /\ calls' = earlier /\ ret' = None
                              /\ UNCHANGED <<stack, auth, issued>>
           ELSE \E t1 \in Instants, t2 \in Instants :
                  LET edited == Stamp(SetModeElem(r.body, op.mode), t1, t2)
                  IN  /\ t1 <= t2
                      /\ op' = [op EXCEPT !.pc = "push", !.fetched = Elem(r.body),
                                          !.clock = ClockRead(r.body, t1, t2),
                                          !.config = Elem(edited)]
                      /\ Issue(earlier, "POST", ConfigPath, Elem(edited), "push", None)
    /\ UNCHANGED <<access_token, systems, issued>>

set_mode_pushed_syncing ==
    /\ op.name = "set_mode" /\ op.pc = "push" /\ Returned
    /\ IF Text(ret).status = STATUS_OK
       THEN /\ op' = [op EXCEPT !.pc = "sync"]
            /\ Issue(calls, "POST", ActivatePath, None, "activate", None)
       ELSE Finish(FALSE) /\ calls' = calls /\ ret' = None
                          /\ UNCHANGED <<stack, auth>>
    /\ UNCHANGED <<access_token, systems, issued>>

\* Lines 544-549: set_mode returns whether the push was accepted.
set_mode_pushed ==
    /\ op.name = "set_mode" /\ op.pc = "push" /\ Returned
    /\ Finish(Text(ret).status = STATUS_OK)
    /\ calls' = calls
    /\ ret' = None
    /\ UNCHANGED <<access_token, systems, stack, auth, issued>>

---------------------------------------------------------------------------
(* Reading: get_status, get_mode, get_profile, get_present_zones, get_zones *)

\* Lines 278-282: the heating sources are "heat", dehumidify is "cool", any
\* other text is returned as it is.
NormalizeModeHeatOnly(raw_mode) ==
    IF raw_mode \in {"gasheat", "electric", "hpheat"} THEN "heat" ELSE raw_mode

NormalizeMode(raw_mode) ==
    IF raw_mode \in {"gasheat", "electric", "hpheat"} THEN "heat"
    ELSE IF raw_mode = "dehumidify" THEN "cool"
    ELSE raw_mode

\* Lines 272-283: None without a status document or a mode element, the
\* normalized text of the mode element otherwise.  The text of an empty element
\* is None, which is neither of the names and is returned as it is.
ModeOf(status) ==
    IF ~Present(status) THEN None
    ELSE IF ~Present(Text(status).mode) THEN None
    ELSE IF Text(Text(status).mode) = "" THEN None
    ELSE Elem(NormalizeMode(Text(Text(status).mode)))

\* Lines 295-306: the ids of the profile's zones whose present element reads
\* "on"; the empty set without a profile or a zones section.
PresentZones(profile) ==
    IF ~Present(profile) THEN {}
    ELSE IF ~Present(Text(profile).zones) THEN {}
    ELSE LET zs == Text(Text(profile).zones)
         IN  {zs[i].id : i \in {j \in 1..Len(zs) : zs[j].present = Elem("on")}}

\* Line 336: a zone is skipped when the set of present zones is not empty and
\* does not have its id.
Skipped(present_zones, zone_id) == present_zones # {} /\ zone_id \notin present_zones

\* Lines 323-330 and 352: the name the config document gives the zone (the last
\* zone of that id wins in the dict), 'Zone <id>' when it gives none.
ConfigZoneName(config, zone_id) ==
    IF ~Present(config) THEN "Zone " \o zone_id
    ELSE IF ~Present(Text(config).zones) THEN "Zone " \o zone_id
    ELSE IF LastWithId(Text(Text(config).zones), zone_id) = 0 THEN "Zone " \o zone_id
    ELSE Text(Text(config).zones)[LastWithId(Text(Text(config).zones), zone_id)].name

\* Lines 340-342: the text of the element, the default if it is missing or empty.
GetText(zone_elem, elem_name, default) ==
    IF Present(zone_elem[elem_name]) /\ Text(zone_elem[elem_name]) # ""
    THEN Text(zone_elem[elem_name]) ELSE default

\* float(text) for the texts of the documents, in tenths; a text outside the
\* table is a ValueError.
FloatOf ==
    [t \in {"0.0", "0", "45", "55", "68.0", "71.5", "74.0"} |->
        CASE t = "0.0" -> 0 [] t = "0" -> 0 [] t = "45" -> 450 [] t = "55" -> 550
          [] t = "68.0" -> 680 [] t = "71.5" -> 715 [] t = "74.0" -> 740]

\* Lines 263-268: float(oat.text) is not guarded: a text that is not a number is
\* a ValueError out of get_outdoor_temp.
OutdoorTempRaises(status) ==
    /\ Present(status)
    /\ Present(Text(status).oat)
    /\ Text(Text(status).oat) # ""
    /\ Text(Text(status).oat) \notin DOMAIN FloatOf

\* Lines 263-268: the number in the oat element, in tenths; None without a
\* status document, without the element, or when the element is empty.
OutdoorTemp(status) ==
    IF ~Present(status) THEN None
    ELSE IF ~Present(Text(status).oat) THEN None
    ELSE IF Text(Text(status).oat) = "" THEN None
    ELSE Elem(FloatOf[Text(Text(status).oat)])

\* Lines 344-348: the number in the element, 0.0 if it is missing, empty or not a
\* number.
GetFloat(zone_elem, elem_name) ==
    LET text == GetText(zone_elem, elem_name, "0.0")
    IN  IF text \in DOMAIN FloatOf THEN FloatOf[text] ELSE 0

\* Lines 350-360.
Zone(zone_elem, config) ==
    [id |-> zone_elem.id,
     name |-> ConfigZoneName(config, zone_elem.id),
     temp |-> GetFloat(zone_elem, "rt"),
     humidity |-> GetFloat(zone_elem, "rh"),
     activity |-> GetText(zone_elem, "currentActivity", "unknown"),
     heat_setpoint |-> GetFloat(zone_elem, "htsp"),
     cool_setpoint |-> GetFloat(zone_elem, "clsp"),
     fan |-> GetText(zone_elem, "fan", "auto"),
     conditioning |-> GetText(zone_elem, "zoneconditioning", "idle")]

\* Lines 332-361: the zones of the status document that are not skipped, in
\* document order.
RECURSIVE ReadZones(_, _, _)
ReadZones(zone_elems, config, present_zones) ==
    IF zone_elems = <<>> THEN <<>>
    ELSE LET rest == ReadZones(Tail(zone_elems), config, present_zones)
         IN  IF Skipped(present_zones, Head(zone_elems).id) THEN rest
             ELSE <<Zone(Head(zone_elems), config)>> \o rest

\* Lines 318-363, with the status, the config and the present zones in hand.
ZonesOf(status, config, present_zones) ==
    IF ~Present(Text(status).zones) THEN <<>>
    ELSE ReadZones(Text(Text(status).zones), config, present_zones)

\* The document of a response, None unless it is a 200 (lines 249-251, 257-259,
\* 289-291).
Document(r) == IF r.status = STATUS_OK THEN Elem(r.body) ELSE None

\* get_mode is called, line 272: get_status, line 247: activate.
call_get_mode ==
    /\ Idle
    /\ systems # <<>>
    /\ op' = [NoOp EXCEPT !.name = "get_mode", !.pc = "activate_status"]
    /\ Issue(<<>>, "POST", ActivatePath, None, "activate", None)
    /\ UNCHANGED <<access_token, systems, issued>>

\* get_outdoor_temp is called, line 263: get_status, line 247: activate.
call_get_outdoor_temp ==
    /\ Idle
    /\ systems # <<>>
    /\ op' = [NoOp EXCEPT !.name = "get_outdoor_temp", !.pc = "activate_status"]
    /\ Issue(<<>>, "POST", ActivatePath, None, "activate", None)
    /\ UNCHANGED <<access_token, systems, issued>>

\* get_zones is called, line 310: get_status, line 247: activate.
call_get_zones ==
    /\ Idle
    /\ systems # <<>>
    /\ op' = [NoOp EXCEPT !.name = "get_zones", !.pc = "activate_status"]
    /\ Issue(<<>>, "POST", ActivatePath, None, "activate", None)
    /\ UNCHANGED <<access_token, systems, issued>>

\* get_status, lines 247-248: whatever activate returned, the document is
\* requested.
get_status_request ==
    /\ op.pc = "activate_status" /\ Returned
    /\ op' = [op EXCEPT !.pc = "get_status"]
    /\ Issue(calls, "GET", StatusPath, None, "get_status", None)
    /\ UNCHANGED <<access_token, systems, issued>>

\* Lines 264-268: get_outdoor_temp returns the outdoor temperature of the status
\* document, or raises on a text that is not a number.
get_outdoor_temp_fetched ==
    /\ op.name = "get_outdoor_temp" /\ op.pc = "get_status" /\ Returned
    /\ IF OutdoorTempRaises(Document(Text(ret)))
       THEN op' = [op EXCEPT !.pc = "raised", !.error = "ValueError",
                             !.status = Document(Text(ret))]
       ELSE op' = [op EXCEPT !.pc = "done", !.status = Document(Text(ret)),
                             !.result = Elem(OutdoorTemp(Document(Text(ret))))]
    /\ ret' = None
    /\ UNCHANGED <<access_token, systems, stack, calls, auth, issued>>

\* Lines 273-283: get_mode returns the mode of the status document.
get_mode_fetched ==
    /\ op.name = "get_mode" /\ op.pc = "get_status" /\ Returned
    /\ op' = [op EXCEPT !.pc = "done", !.status = Document(Text(ret)),
                        !.result = Elem(ModeOf(Document(Text(ret))))]
    /\ ret' = None
    /\ UNCHANGED <<access_token, systems, stack, calls, auth, issued>>

\* Lines 310-311: with or without a status document get_zones goes on to
\* get_config, line 255: activate.
get_zones_status_fetched ==
    /\ op.name = "get_zones" /\ op.pc = "get_status" /\ Returned
    /\ op' = [op EXCEPT !.pc = "activate", !.status = Document(Text(ret))]
    /\ Issue(calls, "POST", ActivatePath, None, "activate", None)
    /\ UNCHANGED <<access_token, systems, issued>>

\* Lines 311-316: without a status document get_zones returns []; with one it
\* goes on to get_present_zones, line 295: get_profile, line 287: activate.
get_zones_config_fetched ==
    /\ op.name = "get_zones" /\ op.pc = "get" /\ Returned
    /\ IF ~Present(op.status)
       THEN /\ op' = [op EXCEPT !.pc = "done", !.config = Document(Text(ret)),
                                !.result = Elem(<<>>)]
            /\ calls' = calls /\ ret' = None
            /\ UNCHANGED <<stack, auth>>
       ELSE /\ op' = [op EXCEPT !.pc = "activate_profile",
                                !.config = Document(Text(ret))]
            /\ Issue(calls, "POST", ActivatePath, None, "activate", None)
    /\ UNCHANGED <<access_token, systems, issued>>

\* get_profile, lines 287-288: whatever activate returned, the document is
\* requested.
get_profile_request ==
    /\ op.pc = "activate_profile" /\ Returned
    /\ op' = [op EXCEPT !.pc = "get_profile"]
    /\ Issue(calls, "GET", ProfilePath, None, "get_profile", None)
    /\ UNCHANGED <<access_token, systems, issued>>

\* Lines 289-306 and 318-363: the present zones are read off the profile and
\* the zones of the status document are returned.
get_zones_profile_fetched ==
    /\ op.name = "get_zones" /\ op.pc = "get_profile" /\ Returned
    /\ LET present_zones == PresentZones(Document(Text(ret)))
       IN  op' = [op EXCEPT !.pc = "done", !.present = Elem(present_zones),
                            !.result = Elem(ZonesOf(op.status, op.config, present_zones))]
    /\ ret' = None
    /\ UNCHANGED <<access_token, systems, stack, calls, auth, issued>>

---------------------------------------------------------------------------
(* _generate_oauth_signature, lines 96-122 *)

\* Text that the signature is computed from is a sequence of pieces: a piece is
\* one character, or a run of unreserved characters (letters, digits, and
\* "_", ".", "-", "~") that no step of the computation looks into.

Https == <<"h", "t", "t", "p", "s", ":", "/", "/">>

Http == <<"h", "t", "t", "p", ":", "/", "/">>

\* The pieces a URL is put together from: a host, a path, the two schemes, and
\* fragments that make a scheme when what is between them is taken out.
UrlChunks ==
    { <<"a", "p", "i", ".", "c", "o", "m">>,
      <<"/", "u", "s", "e", "r", "s">>,
      Https,
      Http,
      <<"h", "t">>,
      <<"t", "p", ":", "/", "/">>,
      <<"h", "t", "t", "p", "s">>,
      <<":", "/", "/">> }

\* The number of chunks after the scheme of a URL.
MaxChunks == 3

RECURSIVE Concats(_)
Concats(n) ==
    IF n = 0 THEN {<<>>}
    ELSE {c \o r : c \in UrlChunks, r \in Concats(n - 1)}

\* What follows the scheme in the URLs that are signed.
Rests == UNION {Concats(n) : n \in 1..MaxChunks}

\* method.upper(), line 107.
Upper(method) ==
    CASE method \in {"GET", "get"} -> "GET"
      [] method \in {"POST", "post"} -> "POST"

Methods == {"GET", "post"}

CONSUMER_KEY == "8j30j19aj103911h"

\* The keys of the parameters, in the order sorted() puts them in (line 99).
KeyOrder ==
    <<"data", "oauth_consumer_key", "oauth_nonce", "oauth_signature_method",
      "oauth_timestamp", "oauth_token", "oauth_version">>

\* Lines 129-136: the protocol parameters; the nonce is 16 base64 characters,
\* "+" and "/" among them.
OAuthParams(nonce) ==
    [k \in {"oauth_consumer_key", "oauth_nonce", "oauth_signature_method",
            "oauth_timestamp", "oauth_token", "oauth_version"} |->
        CASE k = "oauth_consumer_key" -> <<CONSUMER_KEY>>
          [] k = "oauth_nonce" -> nonce
          [] k = "oauth_signature_method" -> <<"HMAC-SHA1">>
          [] k = "oauth_timestamp" -> <<"1700000000">>
          [] k = "oauth_token" -> <<"username">>
          [] k = "oauth_version" -> <<"1.0">>]

\* Lines 139-141: the body parameters are added to the protocol parameters.
WithBodyParams(oauth_params, body_params) ==
    [k \in DOMAIN oauth_params \cup DOMAIN body_params |->
        IF k \in DOMAIN body_params THEN body_params[k] ELSE oauth_params[k]]

\* The parameter sets that are signed: a request without a body, and the login
\* request with its credentials.
ParamSets ==
    { OAuthParams(<<"q83d", "+", "x", "/", "Zw">>),
      WithBodyParams(OAuthParams(<<"q83d", "+", "x", "/", "Zw">>),
                     [k \in {"data"} |->
                         <<"<", "credentials", ">", "u", "&", "p", "=", "%",
                           "<", "/", "credentials", ">">>]) }

\* urllib.parse.quote(piece, safe=''): a reserved character becomes "%" and its
\* two hexadecimal digits, a run of unreserved characters stays.
QuotePiece(c) ==
    CASE c = ":" -> <<"%", "3", "A">>
      [] c = "/" -> <<"%", "2", "F">>
      [] c = "&" -> <<"%", "2", "6">>
      [] c = "=" -> <<"%", "3", "D">>
      [] c = "%" -> <<"%", "2", "5">>
      [] c = "+" -> <<"%", "2", "B">>
      [] c = "<" -> <<"%", "3", "C">>
      [] c = ">" -> <<"%", "3", "E">>
      [] OTHER -> <<c>>

RECURSIVE Quote(_)
Quote(text) ==
    IF text = <<>> THEN <<>> ELSE QuotePiece(Head(text)) \o Quote(Tail(text))

\* str.replace(old, ''): the occurrences of old are taken out, found from left
\* to right and not overlapping.
RECURSIVE Remove(_, _)
Remove(text, old) ==
    IF Len(text) < Len(old) THEN text
    ELSE IF SubSeq(text, 1, Len(old)) = old
         THEN Remove(SubSeq(text, Len(old) + 1, Len(text)), old)
         ELSE <<Head(text)>> \o Remove(Tail(text), old)

\* Line 105: the URL that is signed.
SigUrlAsGiven(url) == url

SigUrl(url) == Http \o Remove(Remove(url, Https), Http)

\* Lines 99-101: key=value of the parameters sorted by key, each quoted, joined
\* with "&".
RECURSIVE JoinParams(_, _)
JoinParams(keys, params) ==
    IF keys = <<>> THEN <<>>
    ELSE IF Head(keys) \notin DOMAIN params THEN JoinParams(Tail(keys), params)
    ELSE LET pair == Quote(<<Head(keys)>>) \o <<"=">> \o Quote(params[Head(keys)])
             rest == JoinParams(Tail(keys), params)
         IN  IF rest = <<>> THEN pair ELSE pair \o <<"&">> \o rest

ParamString(params) == JoinParams(KeyOrder, params)

\* Lines 106-110.
BaseString(method, url, params) ==
    <<Upper(method), "&">> \o Quote(SigUrl(url)) \o <<"&">> \o Quote(ParamString(params))

\* Lines 113-122: the base64 text of the HMAC-SHA1 digest of the base string
\* under the signing key.  The digest is not computed: a signature is the pair
\* it is a function of, so two signatures are equal when key and base string are.
GenerateOAuthSignature(method, url, params, token) ==
    [signing_key |-> SigningKey(token), base_string |-> BaseString(method, url, params)]

\* A client that has a token or has none, about to sign a request.
InitSign ==
    /\ access_token \in {"", "tokA"}
    /\ systems = <<>>
    /\ \E method \in Methods, scheme \in {Https, Http}, rest \in Rests,
          params \in ParamSets :
         op = [name |-> "_generate_oauth_signature", pc |-> "call",
               method |-> method, scheme |-> scheme, rest |-> rest,
               url |-> scheme \o rest, params |-> params, result |-> None]
    /\ stack = <<>>
    /\ ret = None
    /\ calls = <<>>
    /\ auth = NewAuth
    /\ issued = ""

\* _generate_oauth_signature runs and returns.
generate_oauth_signature ==
    /\ op.name = "_generate_oauth_signature" /\ op.pc = "call"
    /\ op' = [op EXCEPT !.pc = "done",
                        !.result = Elem(GenerateOAuthSignature(op.method, op.url,
                                                               op.params, access_token))]
    /\ UNCHANGED <<access_token, systems, stack, ret, calls, auth, issued>>

---------------------------------------------------------------------------
(* One client shared by two threads *)

\* Each thread has its own Python stack and its own return value: with threads,
\* stack and ret hold one value per thread.  The client object, and so
\* access_token, is the same for both; the code takes no lock.  The steps are
\* those of _request and login above, made by one thread while the other may
\* stand anywhere.
Threads == {"t1", "t2"}

TopOf(t) == stack[t][Len(stack[t])]

PopOf(t) == SubSeq(stack[t], 1, Len(stack[t]) - 1)

InitThreads ==
    /\ access_token = ""
    /\ systems = <<>>
    /\ op = NoOp
    /\ stack = [t \in Threads |-> <<>>]
    /\ ret = [t \in Threads |-> None]
    /\ calls = <<>>
    /\ auth = NewAuth
    /\ issued = ""

\* A thread calls activate(), lines 217-218, taking the result of its last call.
thread_call(t) ==
    /\ stack[t] = <<>>
    /\ stack' = [stack EXCEPT ![t] = <<RequestFrame("POST", ActivatePath, None, TRUE)>>]
    /\ ret' = [ret EXCEPT ![t] = None]
    /\ UNCHANGED <<access_token, systems, op, calls, auth, issued>>

\* Lines 159-180 in thread t: the header is built with the token the client
\* holds now and the request is sent; the thread then waits in session.get or
\* session.post, and the other thread runs.
thread_send(t) ==
    /\ stack[t] # <<>>
    /\ TopOf(t).fn = "_request" /\ TopOf(t).pc = "send"
    /\ stack' = [stack EXCEPT ![t] =
                    PopOf(t) \o <<[TopOf(t) EXCEPT !.pc = "wait",
                                                   !.key = SigningKey(access_token)]>>]
    /\ UNCHANGED <<access_token, systems, op, ret, calls, auth, issued>>

\* Lines 180-189 in thread t: the response arrives; a 401 on an attempt that may
\* retry calls login, any other response is returned.
thread_answered(t) ==
    /\ stack[t] # <<>>
    /\ TopOf(t).fn = "_request" /\ TopOf(t).pc = "wait"
    /\ \E r \in Responses(TopOf(t).method, TopOf(t).path) :
         IF r.status = STATUS_UNAUTHORIZED /\ TopOf(t).retry
         THEN IF Len(stack[t]) + 2 > RecursionLimit
              THEN /\ stack' = [stack EXCEPT ![t] = <<>>]
                   /\ ret' = [ret EXCEPT ![t] = None]
              ELSE /\ stack' = [stack EXCEPT ![t] =
                                   PopOf(t) \o <<[TopOf(t) EXCEPT !.pc = "login",
                                                                  !.resp = Elem(r)]>>
                                           \o LoginCall(access_token)]
                   /\ ret' = [ret EXCEPT ![t] = None]
         ELSE /\ stack' = [stack EXCEPT ![t] = PopOf(t)]
              /\ ret' = [ret EXCEPT ![t] = Elem(r)]
    /\ UNCHANGED <<access_token, systems, op, calls, auth, issued>>

\* Lines 202-213 in thread t.
thread_login_return(t) ==
    /\ stack[t] # <<>>
    /\ TopOf(t).fn = "login" /\ Present(ret[t])
    /\ LET r == Text(ret[t])
       IN  IF LoginSucceeds(r)
           THEN /\ access_token' = Text(r.body.accessToken)
                /\ ret' = [ret EXCEPT ![t] = Elem(TRUE)]
           ELSE /\ access_token' = access_token
                /\ ret' = [ret EXCEPT ![t] = Elem(FALSE)]
    /\ stack' = [stack EXCEPT ![t] = PopOf(t)]
    /\ UNCHANGED <<systems, op, calls, auth, issued>>

\* Lines 186-189 in thread t.
thread_relogged(t) ==
    /\ stack[t] # <<>>
    /\ TopOf(t).fn = "_request" /\ TopOf(t).pc = "login" /\ Present(ret[t])
    /\ IF Text(ret[t])
       THEN IF Len(stack[t]) + 1 > RecursionLimit
            THEN /\ stack' = [stack EXCEPT ![t] = <<>>]
                 /\ ret' = [ret EXCEPT ![t] = None]
            ELSE /\ stack' = [stack EXCEPT ![t] =
                                 PopOf(t) \o <<[TopOf(t) EXCEPT !.pc = "retry"],
                                               RequestFrame(TopOf(t).method, TopOf(t).path,
                                                            TopOf(t).data,
                                                            RetryFlagOfResend)>>]
                 /\ ret' = [ret EXCEPT ![t] = None]
       ELSE /\ stack' = [stack EXCEPT ![t] = PopOf(t)]
            /\ ret' = [ret EXCEPT ![t] = TopOf(t).resp]
    /\ UNCHANGED <<access_token, systems, op, calls, auth, issued>>

\* Line 187 in thread t.
thread_retried(t) ==
    /\ stack[t] # <<>>
    /\ TopOf(t).fn = "_request" /\ TopOf(t).pc = "retry" /\ Present(ret[t])
    /\ stack' = [stack EXCEPT ![t] = PopOf(t)]
    /\ UNCHANGED <<access_token, systems, op, ret, calls, auth, issued>>

---------------------------------------------------------------------------
(* The specification *)

Next ==
    \/ request_send
    \/ login_return
    \/ request_relogged
    \/ request_retried
    \/ call_login
    \/ login_done
    \/ call_get_systems
    \/ get_systems_parsed
    \/ call_set_temperature
    \/ call_set_mode
    \/ get_config_request
    \/ set_temperature_fetched
    \/ set_temperature_cleared
    \/ set_temperature_refetched
    \/ set_temperature_pushed
    \/ set_temperature_synced
    \/ set_mode_fetched
    \/ set_mode_pushed

Spec == Init /\ [][Next]_vars

\* The client used for reading: login, get_systems, get_outdoor_temp, get_mode
\* and get_zones.
NextReads ==
    \/ request_send
    \/ login_return
    \/ request_relogged
    \/ request_retried
    \/ call_login
    \/ login_done
    \/ call_get_systems
    \/ get_systems_parsed
    \/ call_get_outdoor_temp
    \/ call_get_mode
    \/ call_get_zones
    \/ get_status_request
    \/ get_outdoor_temp_fetched
    \/ get_mode_fetched
    \/ get_zones_status_fetched
    \/ get_config_request
    \/ get_zones_config_fetched
    \/ get_profile_request
    \/ get_zones_profile_fetched

SpecReads == Init /\ [][NextReads]_vars

\* One client, two threads that call activate().
NextThreads ==
    \/ \E t \in Threads : thread_call(t)
    \/ \E t \in Threads : thread_send(t)
    \/ \E t \in Threads : thread_answered(t)
    \/ \E t \in Threads : thread_login_return(t)
    \/ \E t \in Threads : thread_relogged(t)
    \/ \E t \in Threads : thread_retried(t)

SpecThreads == InitThreads /\ [][NextThreads]_vars

\* The signature engine on its own.
NextSign == generate_oauth_signature

SpecSign == InitSign /\ [][NextSign]_vars

---------------------------------------------------------------------------
(* What the claims read off the history *)

Kinds == [i \in 1..Len(calls) |-> calls[i].kind]

IsPush(c) == c.kind = "push"

Pushes == SelectSeq(calls, IsPush)

PushHolds == [i \in 1..Len(Pushes) |-> Pushes[i].hold]

\* The manual activity's element f of the target zone, None when the document has
\* no such activity.
ManualField(config, zone_id, f) ==
    IF Locate(config, zone_id) = "ok"
    THEN ManualOf(TargetZone(config, zone_id))[f]
    ELSE None

\* What Python prints for f'{x:.1f}' at 70.0, 70.25 and 74.75.
OneDecimal(q) == CASE q = 280 -> "70.0" [] q = 281 -> "70.2" [] q = 299 -> "74.8"

\* The element that set_temperature needs is missing from the document: the
\* zones section, the zone, its activities, its manual activity or, in the
\* document fetched after the hold-clearing push, its hold element.
Missing(config, zone_id, phase) ==
    \/ Locate(config, zone_id) # "ok"
    \/ phase = 2 /\ ~Present(TargetZone(config, zone_id).hold)

\* The zone c is the zone f but for hold, holdActivity, otmr and the setpoints of
\* its manual activity.
FrameZone(f, c) ==
    /\ c.id = f.id /\ c.name = f.name
    /\ Present(c.activities) = Present(f.activities)
    /\ Present(f.activities) =>
         /\ Len(Text(c.activities)) = Len(Text(f.activities))
         /\ \A i \in 1..Len(Text(f.activities)) :
              IF i = FirstWithId(Text(f.activities), "manual")
              THEN /\ Text(c.activities)[i].id = Text(f.activities)[i].id
                   /\ Text(c.activities)[i].fan = Text(f.activities)[i].fan
              ELSE Text(c.activities)[i] = Text(f.activities)[i]

\* The document c is the document f but for the timestamp text and the fields
\* FrameZone lets the target zone differ in.
FrameDoc(f, c, zone_id) ==
    /\ c.mode = f.mode
    /\ Present(c.timestamp) = Present(f.timestamp)
    /\ Present(c.zones) /\ Present(f.zones)
    /\ Len(Text(c.zones)) = Len(Text(f.zones))
    /\ \A i \in 1..Len(Text(f.zones)) :
         IF i = FirstWithId(Text(f.zones), zone_id)
         THEN FrameZone(Text(f.zones)[i], Text(c.zones)[i])
         ELSE Text(c.zones)[i] = Text(f.zones)[i]

---------------------------------------------------------------------------
(* The claims *)

\* C1: a call of _request whose first response is a 401 makes one login and
\* re-sends the request at most once, on every request path, the request that
\* login itself makes included.  The code lets the request of login retry too, so
\* a 401 to the login request starts a second login inside the first.
C1_RetryOnce ==
    auth.first = STATUS_UNAUTHORIZED =>
        /\ auth.logins <= 1
        /\ auth.resends <= 1
        /\ stack = <<>> => auth.logins = 1

\* C2: every call of _request and of login returns to its caller after a bounded
\* number of sends, whatever the server answers.  Against a server that keeps
\* answering 401 the logins nest until the interpreter raises RecursionError.
C2_CallsReturn == op.error # "RecursionError"

\* C3: with no request rejected, set_temperature on a zone on hold pushes twice,
\* hold off and then hold on, with the pause after the first push and before the
\* second fetch; on any other zone it pushes once, hold on.  A second document
\* that lacks an element ends the operation after the first push (see C5).
C3_TwoPhaseHold ==
    (/\ op.name = "set_temperature"
     /\ op.pc \in {"done", "raised"}
     /\ ~op.rejected
     /\ Present(op.was_hold_on)) =>
        IF Text(op.was_hold_on)
        THEN /\ Kinds = <<"activate", "get_config", "push", "sleep",
                          "activate", "get_config", "push", "activate">>
             /\ PushHolds = <<Elem("off"), Elem("on")>>
        ELSE /\ Kinds = <<"activate", "get_config", "push", "activate">>
             /\ PushHolds = <<Elem("on")>>

\* C4: when set_temperature returns True the last document pushed has, for the
\* target zone, hold on, hold activity manual, and each setpoint of the manual
\* activity equal to the requested one with one decimal, or to the fetched one if
\* none was requested.
C4_FinalDocument ==
    (op.name = "set_temperature" /\ op.pc = "done" /\ op.result = Elem(TRUE)) =>
        LET d == Text(op.config)
            f == Text(op.fetched)
        IN  /\ TargetZone(d, op.zone_id).hold = Elem("on")
            /\ TargetZone(d, op.zone_id).holdActivity = Elem("manual")
            /\ ManualField(d, op.zone_id, "htsp") =
                 IF Present(op.heat) THEN Elem(OneDecimal(Text(op.heat)))
                 ELSE ManualField(f, op.zone_id, "htsp")
            /\ ManualField(d, op.zone_id, "clsp") =
                 IF Present(op.cool) THEN Elem(OneDecimal(Text(op.cool)))
                 ELSE ManualField(f, op.zone_id, "clsp")

\* C4's case: zone 1 not on hold with heat 68.0 and cool 74.0, heat 70.0 asked
\* for, True returned: heat is "70.0" and cool still "74.0".
C4_Witness ==
    /\ op.name = "set_temperature" /\ op.pc = "done" /\ op.result = Elem(TRUE)
    /\ op.zone_id = "1" /\ op.heat = Elem(280) /\ op.cool = None
    /\ op.was_hold_on = Elem(FALSE)
    /\ Len(Pushes) = 1
    /\ ManualField(Text(op.config), "1", "htsp") = Elem("70.0")
    /\ ManualField(Text(op.config), "1", "clsp") = Elem("74.0")

\* C5: a fetched document that lacks the zones section, the zone, its
\* activities, its manual activity or (second fetch) its hold element makes
\* set_temperature return False with no further push.  After the second fetch
\* the code does not check, and raises AttributeError or pushes regardless.
C5_NotFoundReported ==
    (/\ op.name = "set_temperature"
     /\ Present(op.fetched)
     /\ Missing(Text(op.fetched), op.zone_id, op.phase)) =>
        /\ op.pc = "done"
        /\ op.result = Elem(FALSE)
        /\ calls[Len(calls)].kind = "get_config"

\* C6: when the hold-clearing push comes back with a status other than 200,
\* set_temperature returns False at once: nothing is requested after that push,
\* and the one document pushed carries hold off and the fetched setpoints.
C6_PhaseOneFailure ==
    [][(/\ op.name = "set_temperature" /\ op.pc = "clear" /\ Returned
        /\ Text(ret).status # STATUS_OK) =>
           /\ op'.pc = "done"
           /\ op'.result = Elem(FALSE)
           /\ stack' = <<>>
           /\ calls' = calls
           /\ Kinds = <<"activate", "get_config", "push">>
           /\ PushHolds = <<Elem("off")>>
           /\ ManualOf(TargetZone(Text(op.config), op.zone_id)) =
                ManualOf(TargetZone(Text(op.fetched), op.zone_id))]_vars

\* C6's case: set_temperature has returned False after its hold-clearing push
\* was rejected.
C6_Witness ==
    /\ op.name = "set_temperature" /\ op.pc = "done" /\ op.result = Elem(FALSE)
    /\ op.was_hold_on = Elem(TRUE) /\ op.phase = 1
    /\ Kinds = <<"activate", "get_config", "push">>
    /\ op.rejected

\* C7: login returns True exactly when its response is a 200 with a token, and
\* then the token is stored; otherwise it returns False and the token is the one
\* the client had when login was called.  A login nested in the failed one (C1)
\* may have stored a token before the outer login returns False.
C7_LoginOutcome ==
    [][(stack # <<>> /\ Top.fn = "login" /\ Present(ret)) =>
          LET r == Text(ret)
              ok == r.status = STATUS_OK /\ Present(r.body.accessToken)
          IN  /\ ret' = Elem(ok)
              /\ ok => access_token' = Text(r.body.accessToken)
              /\ ~ok => access_token' = Top.entry]_vars

\* C8: every request to the login endpoint is signed with the key made of the
\* consumer secret and the empty token, and every other request sent after a
\* login succeeded with the key made of the last token issued.  The code signs
\* a login request with whatever token it holds.
C8_TokenPerRequestKind ==
    /\ auth.path = LoginPath => auth.key = CONSUMER_SECRET \o "&" \o ""
    /\ (auth.path \notin {"", LoginPath} /\ issued # "") =>
           auth.key = CONSUMER_SECRET \o "&" \o issued

\* C9: a document pushed by set_temperature is the document last fetched but for
\* the target zone's hold, holdActivity, otmr, the setpoints of its manual
\* activity and the timestamp; one pushed by set_mode is the fetched one but for
\* the mode and the timestamp.
C9_UnrelatedPreserved ==
    /\ (op.name = "set_temperature" /\ op.pc \in {"clear", "push"}) =>
           FrameDoc(Text(op.fetched), Text(op.config), op.zone_id)
    /\ (op.name = "set_mode" /\ op.pc = "push") =>
           /\ Text(op.config).zones = Text(op.fetched).zones
           /\ Present(Text(op.config).mode) = Present(Text(op.fetched).mode)
           /\ Present(Text(op.config).timestamp) = Present(Text(op.fetched).timestamp)

\* C9's case: the second push of a two-phase set_temperature on zone 2 is in
\* flight, with setpoints changed, in a document that has another zone.
C9_Witness ==
    /\ op.name = "set_temperature" /\ op.pc = "push" /\ op.phase = 2
    /\ op.zone_id = "2" /\ Present(op.heat)
    /\ Len(Text(Text(op.fetched).zones)) = 2
    /\ Text(op.config) # Text(op.fetched)

\* C10: a non-empty cached system list is never changed, and get_systems then
\* returns it without a request; with an empty cache get_systems asks for the
\* locations, and a failed or empty answer leaves the cache empty.
C10_SystemsCache ==
    [][/\ systems # <<>> => systems' = systems
       /\ (Idle /\ systems # <<>> /\ op'.name = "get_systems") =>
              /\ op'.pc = "done" /\ op'.result = Elem(systems)
              /\ stack' = <<>> /\ calls' = <<>>
       /\ (Idle /\ systems = <<>> /\ op'.name = "get_systems" /\ op' # op) =>
              /\ op'.pc = "locations"
              /\ stack' = <<RequestFrame("GET", LocationsPath, None, TRUE)>>
       /\ (/\ op.name = "get_systems" /\ op.pc = "locations" /\ Returned
           /\ \/ Text(ret).status # STATUS_OK
              \/ ParseSystems(Text(ret).body) = <<>>) =>
              systems' = <<>>]_vars

\* C10's case: get_systems has answered from a cache of two systems, without a
\* request.
C10_Witness ==
    /\ op.name = "get_systems" /\ op.pc = "done" /\ calls = <<>>
    /\ systems = <<"S1", "S2">> /\ op.result = Elem(systems)

\* C11: every zone get_zones returns has an id in the set of zones the profile
\* fetched during the call flags present, also when that set is empty (no zone
\* flagged, or the profile fetch failed).  The code skips the filter when the
\* set is empty and returns every zone of the status document.
C11_PresentZoneFilter ==
    (op.name = "get_zones" /\ op.pc = "done" /\ Present(op.present)) =>
        \A i \in 1..Len(Text(op.result)) :
            Text(op.result)[i].id \in Text(op.present)

\* C12: when the status document has a mode element, get_mode returns "heat"
\* for gasheat, electric and hpheat, "cool" for dehumidify, and any other text
\* as it is: a name it does not know unchanged, and None for an empty element,
\* whose text is None.
C12_ModeNormalization ==
    (/\ op.name = "get_mode" /\ op.pc = "done"
     /\ Present(op.status) /\ Present(Text(op.status).mode)) =>
        LET raw == Text(Text(op.status).mode)
            returned == Text(op.result)
        IN  /\ raw \in {"gasheat", "electric", "hpheat"} => returned = Elem("heat")
            /\ raw = "dehumidify" => returned = Elem("cool")
            /\ raw \notin {"gasheat", "electric", "hpheat", "dehumidify", ""} =>
                   returned = Elem(raw)
            /\ raw = "" => returned = None

\* C12's case: get_mode has returned "cool" for a status document whose mode
\* reads dehumidify.
C12_Witness ==
    /\ op.name = "get_mode" /\ op.pc = "done"
    /\ Present(op.status) /\ Text(op.status).mode = Elem("dehumidify")
    /\ op.result = Elem(Elem("cool"))

\* C13: set_mode never asks for a keepalive after its push; with no request
\* rejected it issues the keepalive of get_config, the config fetch and one push,
\* in that order; and the zones section it pushes (the holds, hold activities and
\* setpoints) is the fetched one.
C13_SetModeSequence ==
    op.name = "set_mode" =>
        /\ \A i \in 1..Len(calls) : \A j \in (i + 1)..Len(calls) :
               calls[i].kind = "push" => calls[j].kind # "activate"
        /\ (op.pc = "done" /\ ~op.rejected) =>
               /\ Kinds = <<"activate", "get_config", "push">>
               /\ op.result = Elem(TRUE)
        /\ (op.pc \in {"push", "done"} /\ Present(op.config)) =>
               Text(op.config).zones = Text(op.fetched).zones

\* C13's case: set_mode has returned True with no request rejected, after
\* pushing a document with two zones on hold.
C13_Witness ==
    /\ op.name = "set_mode" /\ op.pc = "done" /\ ~op.rejected
    /\ op.result = Elem(TRUE)
    /\ Len(Pushes) = 1
    /\ Present(Text(op.fetched).zones)
    /\ Len(Text(Text(op.fetched).zones)) = 2
    /\ Text(op.config).mode = Elem(op.mode)

\* C14: for a method, a parameter set and a token, the signature of
\* "https://" + rest is the signature of "http://" + rest, and the URL in the
\* base string (the second of its "&"-separated parts, percent-encoded like the
\* others) begins with "http://".
C14_SchemeNormalization ==
    (op.name = "_generate_oauth_signature" /\ op.pc = "done") =>
        /\ Text(op.result) = GenerateOAuthSignature(op.method, Https \o op.rest,
                                                    op.params, access_token)
        /\ Text(op.result) = GenerateOAuthSignature(op.method, Http \o op.rest,
                                                    op.params, access_token)
        /\ SubSeq(Text(op.result).base_string, 3, 15) =
               <<"h", "t", "t", "p", "%", "3", "A", "%", "2", "F", "%", "2", "F">>

\* C14's case: a URL with the secure scheme, and a scheme again further on, has
\* been signed.
C14_Witness ==
    /\ op.name = "_generate_oauth_signature" /\ op.pc = "done"
    /\ op.scheme = Https
    /\ op.rest = <<"a", "p", "i", ".", "c", "o", "m">> \o Http
                    \o <<"/", "u", "s", "e", "r", "s">>
    /\ op.method = "post"
    /\ "data" \in DOMAIN op.params
    /\ SubSeq(Text(op.result).base_string, 1, 2) = <<"POST", "&">>

\* A login call of the thread is in flight.
InLogin(t) == \E i \in 1..Len(stack[t]) : stack[t][i].fn = "login"

\* C15: with one client used by two threads, the two are never both
\* re-authenticating.  The code has no lock around login and the retry: two
\* requests answered 401 are both inside login at once.
C15_RefreshCriticalSection == ~(InLogin("t1") /\ InLogin("t2"))

\* C16: in a single-threaded run, a login that succeeds replaces the token with
\* the one just issued before anything else is signed, and the request re-sent
\* after it is signed with the key made of that token: a token other than the
\* one the first attempt was signed with whenever the server issued another.
C16_RetrySignsRefreshed ==
    [][stack # <<>> =>
         /\ (Top.fn = "login" /\ Present(ret)) =>
                /\ auth' = auth
                /\ LoginSucceeds(Text(ret)) =>
                       /\ access_token' = Text(Text(ret).body.accessToken)
                       /\ access_token' = issued
                       /\ issued # Top.entry =>
                              SigningKey(access_token') # SigningKey(Top.entry)
         /\ (Top.fn = "_request" /\ Top.pc = "login" /\ Present(ret)) =>
                /\ auth'.key = auth.key
                /\ access_token' = access_token
                /\ Text(ret) => access_token = issued
         /\ (Top.fn = "_request" /\ Top.pc = "send" /\ ~Top.retry) =>
                /\ issued # ""
                /\ auth'.key = CONSUMER_SECRET \o "&" \o issued]_vars

\* C16's case: get_systems (or set_temperature, set_mode) was answered 401, the
\* login succeeded, and the request has been sent again, signed with the token
\* of that login.
C16_Witness ==
    /\ stack = <<>> /\ Present(ret)
    /\ auth.first = STATUS_UNAUTHORIZED
    /\ auth.logins = 1 /\ auth.resends = 1
    /\ auth.path \notin {"", LoginPath}
    /\ issued = "tokB"
    /\ auth.key = CONSUMER_SECRET \o "&" \o "tokB"

\* C17: the document of the second push of a two-phase set_temperature is made
\* from the document fetched after the first push: outside the hold fields, the
\* requested setpoints and the timestamp it is that document, whatever the
\* document fetched before the first push was.
C17_SecondPhaseFresh ==
    (op.name = "set_temperature" /\ op.phase = 2 /\ op.pc \in {"push", "sync"}) =>
        LET f == Text(op.fetched)
            c == Text(op.config)
        IN  /\ FrameDoc(f, c, op.zone_id)
            /\ c.mode = f.mode
            /\ ~Present(op.heat) =>
                   ManualField(c, op.zone_id, "htsp") = ManualField(f, op.zone_id, "htsp")
            /\ ~Present(op.cool) =>
                   ManualField(c, op.zone_id, "clsp") = ManualField(f, op.zone_id, "clsp")

\* C17's case: between the two fetches the remote changed the mode from heat to
\* auto and replaced zone 1 by a second zone 2; the second push carries mode auto.
C17_Witness ==
    /\ op.name = "set_temperature" /\ op.phase = 2 /\ op.pc = "push"
    /\ op.zone_id = "2"
    /\ Text(op.first).mode = Elem("heat")
    /\ Text(op.fetched).mode = Elem("auto")
    /\ Text(op.config).mode = Elem("auto")
    /\ Text(Text(op.first).zones)[1].id = "1"
    /\ Text(Text(op.config).zones)[1].id = "2"

\* The last two requests of the operation are a config push and a keepalive: the
\* push was answered 200 and activate was called after it.
PushAccepted ==
    /\ Len(calls) >= 2
    /\ calls[Len(calls) - 1].kind = "push"
    /\ calls[Len(calls)].kind = "activate"

\* C18: set_temperature returns True exactly when its final push was answered
\* 200, with one keepalive after the push whose outcome does not matter; after
\* any other answer it returns False and asks for no keepalive.  A keepalive
\* that is answered 401 again and again never returns (C2), and then
\* set_temperature returns nothing.
C18_ResultAndKeepalive ==
    (op.name = "set_temperature" /\ op.pc \in {"done", "raised"}) =>
        /\ PushAccepted => op.pc = "done" /\ op.result = Elem(TRUE)
        /\ op.result = Elem(TRUE) =>
               /\ PushAccepted
               /\ calls[Len(calls) - 1].hold = Elem("on")
        /\ (/\ op.pc = "done"
            /\ calls # <<>>
            /\ calls[Len(calls)] = Call("push", Elem("on"))) =>
               op.result = Elem(FALSE)

\* The requests that read remote state.
Reads == {"locations", "get_status", "get_config", "get_profile"}

\* C19: every GET that reads remote state (status, config, profile, and the
\* locations of get_systems) comes right after a keepalive of the same
\* operation.  get_systems asks for the locations without one.
C19_KeepaliveBeforeRead ==
    \A i \in 1..Len(calls) :
        calls[i].kind \in Reads => (i > 1 /\ calls[i - 1].kind = "activate")

\* C20: _request re-authenticates when its first response is a 401 and also
\* when it is a 403, as its docstring says.  The code tests for 401 only: a 403
\* is returned to the caller without a login.
C20_AuthFailureStatuses ==
    (auth.first \in {STATUS_UNAUTHORIZED, 403} /\ stack = <<>> /\ Present(ret)) =>
        auth.logins >= 1

\* C21: whenever set_mode returns True the document it pushed has the requested
\* mode in its mode element, also when the fetched document had no mode
\* element.  The code sets the mode only if the element is there, pushes the
\* document without one otherwise, and returns True when the push is accepted.
C21_SetModeApplies ==
    (op.name = "set_mode" /\ op.pc = "done" /\ op.result = Elem(TRUE)) =>
        Text(op.config).mode = Elem(op.mode)

\* C22: the timestamp written by set_temperature and set_mode is the text of one
\* instant of the clock between the start and the end of stamping.  The code
\* takes the seconds from one reading of the clock and the milliseconds from a
\* later one: across a change of second the text is that of an instant up to a
\* second before stamping started.
C22_TimestampCurrent ==
    (op.name \in {"set_temperature", "set_mode"} /\ Present(op.clock)) =>
        \E i \in (Text(op.clock).start)..(Text(op.clock).end) :
            Text(op.config).timestamp = Elem(Timestamp(i, i))

\* C23: once the hold-clearing push of set_temperature has been answered 200,
\* set_temperature does not return before it has issued the hold-on push,
\* whatever the keepalive and the second fetch are answered.  The code returns
\* False when the second fetch fails, with the zone left on hold off.
C23_NoAbandonment ==
    (op.name = "set_temperature" /\ op.pc = "done" /\ op.phase = 2) =>
        /\ Len(Pushes) = 2
        /\ PushHolds = <<Elem("off"), Elem("on")>>

====
